---- MODULE Spec2Model ----
(***************************************************************************)
(* A model of the JMESPath tree interpreter of src/jmespath/ast.py.        *)
(*                                                                         *)
(* Python values are pairs <<type name, payload>>; the type name is the    *)
(* one type(x).__name__ gives ("NoneType", "bool", "int", "float",         *)
(* "unicode", "list", "dict", "_Projection"):                              *)
(*   None         <<"NoneType", 0>>                                        *)
(*   True         <<"bool", TRUE>>                                         *)
(*   7            <<"int", 7>>                                             *)
(*   1.5          <<"float", <<3, 2>>>>   (a fraction in lowest terms)     *)
(*   u"ab"        <<"unicode", <<"a", "b">>>>   (a sequence of characters) *)
(*   [x, y]       <<"list", <<x, y>>>>                                     *)
(*   {k: x}       <<"dict", << <<k, x>> >>>>   (pairs, sorted by key; a    *)
(*                key is a sequence of characters)                         *)
(*   _Projection  <<"_Projection", <<x, y>>>>                              *)
(* A raised exception is <<"raise", class name, ...>>.  AST nodes are      *)
(* tuples <<class name, fields...>>.                                       *)
(***************************************************************************)
EXTENDS Integers, Sequences, FiniteSets, TLC

\* phase: what the driver did last; ast, input, output: the expression searched,
\* the document and what search returned or raised; probe: what the nested
\* search was built from
VARIABLES phase, ast, input, output, probe

\* The same searches on a heap of list objects, where a list is reached by
\* reference.  heap: the objects, an address being an index; document: the
\* input document, loaded at the lowest addresses; plan: the nodes of the
\* chain of subexpressions searched; todo: the nodes not yet searched; cur:
\* the value handed to the next node; round: 1 for the first search of the
\* chain, 2 for the second; first_output: what the first search gave
VARIABLES heap, document, plan, todo, cur, round, first_output

dvars == <<phase, ast, input, output, probe>>
hvars == <<heap, document, plan, todo, cur, round, first_output>>
vars == <<phase, ast, input, output, probe, heap, document, plan, todo, cur, round,
          first_output>>

\* ---------------------------------------------------------------- bounds
MaxLen == 2
MaxCtxDepth == 2
MaxPipeline == 2
MaxArgs == 3

\* ---------------------------------------------------------------- values
None == <<"NoneType", 0>>
PyBool(b) == <<"bool", b>>
PyInt(n) == <<"int", n>>
PyFloat(n, d) == <<"float", <<n, d>>>>
PyStr(s) == <<"unicode", s>>
PyList(s) == <<"list", s>>
PyDict(pairs) == <<"dict", pairs>>
Projection(s) == <<"_Projection", s>>
Raise(cls) == <<"raise", cls>>
JMESPathTypeError(function_name, current_value, actual_type, expected_types) ==
    <<"raise", "JMESPathTypeError", function_name, current_value, actual_type, expected_types>>
Arg(resolve, typed, types) == <<"_Arg", resolve, typed, types>>

TypeName(v) == v[1]
IsRaise(v) == v[1] = "raise"
IsNone(v) == v[1] = "NoneType"
IsList(v) == v[1] \in {"list", "_Projection"}
IsProjection(v) == v[1] = "_Projection"
IsDict(v) == v[1] = "dict"
IsString(v) == v[1] = "unicode"
IsBool(v) == v[1] = "bool"
IsPyNumber(v) == v[1] \in {"int", "float", "bool"}

\* ------------------------------------------------- Python's number tower
Abs(n) == IF n < 0 THEN -n ELSE n

\* a number as a fraction <<numerator, denominator>>; True is 1, False is 0
Frac(v) ==
    CASE v[1] = "bool" -> <<IF v[2] THEN 1 ELSE 0, 1>>
      [] v[1] = "int" -> <<v[2], 1>>
      [] v[1] = "float" -> v[2]

NumEq(a, b) == Frac(a)[1] * Frac(b)[2] = Frac(b)[1] * Frac(a)[2]
NumLt(a, b) == Frac(a)[1] * Frac(b)[2] < Frac(b)[1] * Frac(a)[2]

\* ------------------------------------------------------------ characters
\* the characters the model's strings use, in code point order
Alphabet ==
    <<" ", "-", ".", "0", "1", "2", "3", "4", "5", "6", "7", "8", "9", "_",
      "a", "b", "c", "d", "e", "f", "g", "h", "i", "j", "k", "l", "m", "n",
      "o", "p", "q", "r", "s", "t", "u", "v", "w", "x", "y", "z">>

\* the rank of a character in code point order (what ord() is used for)
CharOrd(c) == CHOOSE i \in 1..Len(Alphabet) : Alphabet[i] = c

IsDigit(c) == c \in {"0", "1", "2", "3", "4", "5", "6", "7", "8", "9"}
DigitVal(c) == CharOrd(c) - CharOrd("0")

RECURSIVE StrCmp(_, _)
\* cmp() of two strings: -1, 0 or 1, by code point, then by length
StrCmp(s, t) ==
    IF s = <<>> THEN (IF t = <<>> THEN 0 ELSE -1)
    ELSE IF t = <<>> THEN 1
    ELSE IF CharOrd(Head(s)) < CharOrd(Head(t)) THEN -1
    ELSE IF CharOrd(Head(s)) > CharOrd(Head(t)) THEN 1
    ELSE StrCmp(Tail(s), Tail(t))

RECURSIVE IsPrefix(_, _)
IsPrefix(s, t) ==
    IF s = <<>> THEN TRUE
    ELSE IF t = <<>> THEN FALSE
    ELSE Head(s) = Head(t) /\ IsPrefix(Tail(s), Tail(t))

RECURSIVE IsSubstring(_, _)
\* s in t, for two strings
IsSubstring(s, t) ==
    IF IsPrefix(s, t) THEN TRUE
    ELSE IF t = <<>> THEN FALSE
    ELSE IsSubstring(s, Tail(t))

\* ------------------------------------------------------- dict primitives
RECURSIVE DictHas(_, _)
DictHas(pairs, key) ==
    IF pairs = <<>> THEN FALSE
    ELSE IF Head(pairs)[1] = key THEN TRUE
    ELSE DictHas(Tail(pairs), key)

RECURSIVE DictGet(_, _)
\* dict.get(key): the value, or None
DictGet(pairs, key) ==
    IF pairs = <<>> THEN None
    ELSE IF Head(pairs)[1] = key THEN Head(pairs)[2]
    ELSE DictGet(Tail(pairs), key)

RECURSIVE DictSet(_, _, _)
\* d[key] = val, keeping the pairs sorted by key
DictSet(pairs, key, val) ==
    IF pairs = <<>> THEN << <<key, val>> >>
    ELSE IF Head(pairs)[1] = key THEN << <<key, val>> >> \o Tail(pairs)
    ELSE IF StrCmp(key, Head(pairs)[1]) < 0 THEN << <<key, val>> >> \o pairs
    ELSE <<Head(pairs)>> \o DictSet(Tail(pairs), key, val)

RECURSIVE DictValues(_)
\* dict.values(): the values in the dict's iteration order
DictValues(pairs) ==
    IF pairs = <<>> THEN <<>>
    ELSE <<Head(pairs)[2]>> \o DictValues(Tail(pairs))

RECURSIVE DictKeys(_)
DictKeys(pairs) ==
    IF pairs = <<>> THEN <<>>
    ELSE <<PyStr(Head(pairs)[1])>> \o DictKeys(Tail(pairs))

\* ---------------------------------------------------- Python's == and bool()
RECURSIVE PyEq(_, _)
RECURSIVE PySeqEq(_, _)
RECURSIVE PyDictEq(_, _)

\* a == b as Python 2 computes it: numbers (bool included) by value, lists and
\* their subclasses element-wise, dicts key-wise, everything else by kind
PyEq(a, b) ==
    IF IsPyNumber(a) /\ IsPyNumber(b) THEN NumEq(a, b)
    ELSE IF IsString(a) /\ IsString(b) THEN a[2] = b[2]
    ELSE IF IsList(a) /\ IsList(b) THEN PySeqEq(a[2], b[2])
    ELSE IF IsDict(a) /\ IsDict(b) THEN PyDictEq(a[2], b[2])
    ELSE IsNone(a) /\ IsNone(b)

PySeqEq(s, t) ==
    IF Len(s) # Len(t) THEN FALSE
    ELSE IF s = <<>> THEN TRUE
    ELSE PyEq(Head(s), Head(t)) /\ PySeqEq(Tail(s), Tail(t))

PyDictEq(p, q) ==
    IF Len(p) # Len(q) THEN FALSE
    ELSE IF p = <<>> THEN TRUE
    ELSE /\ Head(p)[1] = Head(q)[1]
         /\ PyEq(Head(p)[2], Head(q)[2])
         /\ PyDictEq(Tail(p), Tail(q))

\* bool(v), the test of an if statement
PyTruth(v) ==
    CASE v[1] = "NoneType" -> FALSE
      [] v[1] = "bool" -> v[2]
      [] v[1] = "int" -> v[2] # 0
      [] v[1] = "float" -> v[2][1] # 0
      [] OTHER -> v[2] # <<>>

\* ------------------------------------------------------ Python 2's ordering
\* The rank of a kind when two values of different kinds are ordered: None is
\* smaller than anything, then the numbers, then the other kinds by type name
\* ("_Projection" < "dict" < "list" < "unicode").
TypeRank(v) ==
    CASE v[1] = "NoneType" -> 0
      [] v[1] \in {"int", "float", "bool"} -> 1
      [] v[1] = "_Projection" -> 2
      [] v[1] = "dict" -> 3
      [] v[1] = "list" -> 4
      [] OTHER -> 5

Sign(n) == IF n < 0 THEN -1 ELSE IF n > 0 THEN 1 ELSE 0

RECURSIVE PyCmp(_, _)
RECURSIVE PySeqCmp(_, _)
RECURSIVE Characterize(_, _)

\* cmp(a, b) as Python 2 computes it: -1, 0 or 1
PyCmp(a, b) ==
    IF IsPyNumber(a) /\ IsPyNumber(b)
    THEN (IF NumLt(a, b) THEN -1 ELSE IF NumLt(b, a) THEN 1 ELSE 0)
    ELSE IF IsString(a) /\ IsString(b) THEN StrCmp(a[2], b[2])
    ELSE IF IsList(a) /\ IsList(b) THEN PySeqCmp(a[2], b[2])
    ELSE IF IsDict(a) /\ IsDict(b)
    THEN IF Len(a[2]) # Len(b[2]) THEN Sign(Len(a[2]) - Len(b[2]))
         ELSE LET adiff == Characterize(a[2], b[2])
                  bdiff == Characterize(b[2], a[2])
              IN  IF adiff = <<>> THEN 0
                  ELSE IF StrCmp(adiff[1], bdiff[1]) # 0
                  THEN StrCmp(adiff[1], bdiff[1])
                  ELSE PyCmp(adiff[2], bdiff[2])
    ELSE Sign(TypeRank(a) - TypeRank(b))

\* list comparison: the first pair of items that are not equal decides, else
\* the lengths do
PySeqCmp(s, t) ==
    IF s = <<>> THEN (IF t = <<>> THEN 0 ELSE -1)
    ELSE IF t = <<>> THEN 1
    ELSE IF PyEq(Head(s), Head(t)) THEN PySeqCmp(Tail(s), Tail(t))
    ELSE PyCmp(Head(s), Head(t))

\* the smallest key of p that q lacks or maps to another value, with its
\* value; <<>> when there is none
Characterize(p, q) ==
    IF p = <<>> THEN <<>>
    ELSE IF DictHas(q, Head(p)[1]) /\ PyEq(DictGet(q, Head(p)[1]), Head(p)[2])
    THEN Characterize(Tail(p), q)
    ELSE Head(p)

\* ----------------------------------------------------------- the AST nodes
SubExpression(parent, child) == <<"SubExpression", parent, child>>
Field(name) == <<"Field", name>>
MultiFieldDict(nodes) == <<"MultiFieldDict", nodes>>
MultiFieldList(nodes) == <<"MultiFieldList", nodes>>
KeyValPair(key_name, n) == <<"KeyValPair", key_name, n>>
Index(index) == <<"Index", index>>
WildcardIndex == <<"WildcardIndex">>
WildcardValues == <<"WildcardValues">>
ListElements == <<"ListElements">>
ORExpression(first_, remaining) == <<"ORExpression", first_, remaining>>
FilterExpression(expression) == <<"FilterExpression", expression>>
Literal(literal_value) == <<"Literal", literal_value>>
Comparator(cls, first_, second) == <<cls, first_, second>>
CurrentNode == <<"CurrentNode">>
FunctionExpression(name, args) == <<"FunctionExpression", name, args>>

ComparatorClasses ==
    {"OPEquals", "OPNotEquals", "OPLessThan", "OPLessThanEquals",
     "OPGreaterThan", "OPGreaterThanEquals"}

RECURSIVE search(_, _)
RECURSIVE Projection_get(_, _)
RECURSIVE Projection_multi_get(_, _)
RECURSIVE Projection_multi_get_list(_, _)
RECURSIVE Projection_values(_)
RECURSIVE Projection_get_literal(_, _)
RECURSIVE Projection_multi_filter(_, _)
RECURSIVE Projection_function_call(_, _)
RECURSIVE call_with_resolved_args(_, _)
RECURSIVE MultiFieldDict_multi_get(_, _)
RECURSIVE MultiFieldList_multi_get(_, _)

\* s[index] of a Python list: the item, or IndexError
ListItem(s, index) ==
    IF 0 <= index /\ index < Len(s) THEN s[index + 1]
    ELSE IF index < 0 /\ -Len(s) <= index THEN s[Len(s) + index + 1]
    ELSE Raise("IndexError")

\* ------------------------------------------------------------ _Projection
\* Each method takes the elements of self and gives the _Projection built,
\* or the exception a search inside it raised.

\* _Projection.get: element.get(value) of every element that has a get (a
\* dict, or a nested _Projection); None results are skipped and a list
\* result becomes a _Projection
Projection_get(elems, name) ==
    IF elems = <<>> THEN Projection(<<>>)
    ELSE LET element == Head(elems)
             rest == Projection_get(Tail(elems), name)
         IN  IF IsDict(element)
             THEN LET r == DictGet(element[2], name)
                  IN  IF IsNone(r) THEN rest
                      ELSE IF IsList(r) THEN Projection(<<Projection(r[2])>> \o rest[2])
                      ELSE Projection(<<r>> \o rest[2])
             ELSE IF IsProjection(element)
             THEN Projection(<<Projection_get(element[2], name)>> \o rest[2])
             ELSE rest

RECURSIVE Projection_get_index(_, _)
\* _Projection.get_index: el[index] of every element that is a list and has
\* that index
Projection_get_index(elems, index) ==
    IF elems = <<>> THEN Projection(<<>>)
    ELSE LET el == Head(elems)
             rest == Projection_get_index(Tail(elems), index)
         IN  IF ~IsList(el) THEN rest
             ELSE IF IsRaise(ListItem(el[2], index)) THEN rest
             ELSE Projection(<<ListItem(el[2], index)>> \o rest[2])

\* _Projection.multi_get: one dict per element
Projection_multi_get(elems, nodes) ==
    IF elems = <<>> THEN Projection(<<>>)
    ELSE LET element == Head(elems)
             r == IF IsProjection(element)
                  THEN Projection_multi_get(element[2], nodes)
                  ELSE MultiFieldDict_multi_get(nodes, element)
         IN  IF IsRaise(r) THEN r
             ELSE LET rest == Projection_multi_get(Tail(elems), nodes)
                  IN  IF IsRaise(rest) THEN rest
                      ELSE Projection(<<r>> \o rest[2])

\* _Projection.multi_get_list: one list per element
Projection_multi_get_list(elems, nodes) ==
    IF elems = <<>> THEN Projection(<<>>)
    ELSE LET element == Head(elems)
             r == IF IsProjection(element)
                  THEN Projection_multi_get_list(element[2], nodes)
                  ELSE MultiFieldList_multi_get(nodes, element)
         IN  IF IsRaise(r) THEN r
             ELSE LET rest == Projection_multi_get_list(Tail(elems), nodes)
                  IN  IF IsRaise(rest) THEN rest
                      ELSE Projection(<<r>> \o rest[2])

\* _Projection.values: a _Projection of the values of every element that has
\* a values method (a dict, or a nested _Projection)
Projection_values(elems) ==
    IF elems = <<>> THEN Projection(<<>>)
    ELSE LET element == Head(elems)
             rest == Projection_values(Tail(elems))
         IN  IF IsDict(element)
             THEN Projection(<<Projection(DictValues(element[2]))>> \o rest[2])
             ELSE IF IsProjection(element)
             THEN Projection(<<Projection_values(element[2])>> \o rest[2])
             ELSE rest

\* _Projection.get_literal: the literal once per element
Projection_get_literal(elems, literal_value) ==
    IF elems = <<>> THEN Projection(<<>>)
    ELSE LET element == Head(elems)
             rest == Projection_get_literal(Tail(elems), literal_value)
         IN  IF IsProjection(element)
             THEN Projection(<<Projection_get_literal(element[2], literal_value)>> \o rest[2])
             ELSE Projection(<<literal_value>> \o rest[2])

\* _Projection.multi_filter: nested _Projections are filtered in place, the
\* other elements are kept when the expression is true of them
Projection_multi_filter(elems, expression) ==
    IF elems = <<>> THEN Projection(<<>>)
    ELSE LET element == Head(elems)
             t == IF IsProjection(element)
                  THEN Projection_multi_filter(element[2], expression)
                  ELSE search(expression, element)
         IN  IF IsRaise(t) THEN t
             ELSE LET rest == Projection_multi_filter(Tail(elems), expression)
                  IN  IF IsRaise(rest) THEN rest
                      ELSE IF IsProjection(element) THEN Projection(<<t>> \o rest[2])
                      ELSE IF PyTruth(t) THEN Projection(<<element>> \o rest[2])
                      ELSE rest

\* _Projection.function_call with an element whose call raises skipped,
\* as get skips an element on AttributeError
Projection_function_call_skipping(elems, fn) ==
    IF elems = <<>> THEN Projection(<<>>)
    ELSE LET current == call_with_resolved_args(fn, Head(elems))
             rest == Projection_function_call(Tail(elems), fn)
         IN  IF IsRaise(rest) THEN rest
             ELSE IF IsRaise(current) \/ IsNone(current) THEN rest
             ELSE Projection(<<current>> \o rest[2])

\* _Projection.function_call without the `is not None` test: every result
\* is appended
Projection_function_call_keeping_none(elems, fn) ==
    IF elems = <<>> THEN Projection(<<>>)
    ELSE LET current == call_with_resolved_args(fn, Head(elems))
         IN  IF IsRaise(current) THEN current
             ELSE LET rest == Projection_function_call(Tail(elems), fn)
                  IN  IF IsRaise(rest) THEN rest
                      ELSE Projection(<<current>> \o rest[2])

\* _Projection.function_call: the function on every element, None results
\* skipped
Projection_function_call(elems, fn) ==
    IF elems = <<>> THEN Projection(<<>>)
    ELSE LET current == call_with_resolved_args(fn, Head(elems))
         IN  IF IsRaise(current) THEN current
             ELSE LET rest == Projection_function_call(Tail(elems), fn)
                  IN  IF IsRaise(rest) THEN rest
                      ELSE IF IsNone(current) THEN rest
                      ELSE Projection(<<current>> \o rest[2])

\* ------------------------------------------------------------------ nodes
\* SubExpression.search: the parent's match is fed to the child
SubExpression_search(n, v) ==
    LET sub_value == search(n[2], v)
    IN  IF IsRaise(sub_value) THEN sub_value ELSE search(n[3], sub_value)

\* Field.search: value.get(name) when the value has a get method
Field_search(name, v) ==
    IF IsDict(v) THEN DictGet(v[2], name)
    ELSE IF IsProjection(v) THEN Projection_get(v[2], name)
    ELSE None

\* MultiFieldDict._multi_get: collected[node.key_name] = node.search(value)
MultiFieldDict_multi_get(nodes, v) ==
    IF nodes = <<>> THEN PyDict(<<>>)
    ELSE LET last == nodes[Len(nodes)]
             collected == MultiFieldDict_multi_get(SubSeq(nodes, 1, Len(nodes) - 1), v)
         IN  IF IsRaise(collected) THEN collected
             ELSE LET r == search(last, v)
                  IN  IF IsRaise(r) THEN r
                      ELSE PyDict(DictSet(collected[2], last[2], r))

\* MultiFieldList._multi_get: collected.append(node.search(value))
MultiFieldList_multi_get(nodes, v) ==
    IF nodes = <<>> THEN PyList(<<>>)
    ELSE LET last == nodes[Len(nodes)]
             collected == MultiFieldList_multi_get(SubSeq(nodes, 1, Len(nodes) - 1), v)
         IN  IF IsRaise(collected) THEN collected
             ELSE LET r == search(last, v)
                  IN  IF IsRaise(r) THEN r
                      ELSE PyList(Append(collected[2], r))

\* BaseMultiField.search
BaseMultiField_search(n, v) ==
    IF IsNone(v) THEN None
    ELSE IF IsProjection(v)
    THEN (IF n[1] = "MultiFieldDict"
          THEN Projection_multi_get(v[2], n[2])
          ELSE Projection_multi_get_list(v[2], n[2]))
    ELSE IF n[1] = "MultiFieldDict" THEN MultiFieldDict_multi_get(n[2], v)
    ELSE MultiFieldList_multi_get(n[2], v)

\* KeyValPair.search
KeyValPair_search(n, v) == search(n[3], v)

\* Index.search without the isinstance test: a string is indexed too
Index_search_any_sequence(index, v) ==
    IF IsProjection(v) THEN Projection_get_index(v[2], index)
    ELSE IF ~(IsList(v) \/ IsString(v)) THEN None
    ELSE IF ~(-Len(v[2]) <= index /\ index < Len(v[2])) THEN None
    ELSE IF IsString(v) THEN PyStr(<<ListItem(v[2], index)>>)
    ELSE ListItem(v[2], index)

\* Index.search: None for what is not a list, and for an IndexError
Index_search(index, v) ==
    IF ~IsList(v) THEN None
    ELSE IF IsProjection(v) THEN Projection_get_index(v[2], index)
    ELSE IF IsRaise(ListItem(v[2], index)) THEN None
    ELSE ListItem(v[2], index)

\* WildcardIndex.search
WildcardIndex_search(v) ==
    IF ~IsList(v) THEN None ELSE Projection(v[2])

\* WildcardValues.search: _Projection(value.values()), None on AttributeError
WildcardValues_search(v) ==
    IF IsDict(v) THEN Projection(DictValues(v[2]))
    ELSE IF IsProjection(v) THEN Projection_values(v[2])
    ELSE None

RECURSIVE merged_list(_)
\* the loop of ListElements.search: inner lists are extended into the result
merged_list(elems) ==
    IF elems = <<>> THEN <<>>
    ELSE IF IsList(Head(elems)) THEN Head(elems)[2] \o merged_list(Tail(elems))
    ELSE <<Head(elems)>> \o merged_list(Tail(elems))

\* ListElements.search
ListElements_search(v) ==
    IF IsList(v) THEN Projection(merged_list(v[2])) ELSE None

\* ORExpression.search
ORExpression_search(n, v) ==
    LET matched == search(n[2], v)
    IN  IF IsRaise(matched) THEN matched
        ELSE IF IsNone(matched) THEN search(n[3], v)
        ELSE matched

RECURSIVE filter_loop(_, _)
\* the loop of FilterExpression.search over a plain list, and the
\* _Projection built of its result
filter_loop(elems, expression) ==
    IF elems = <<>> THEN Projection(<<>>)
    ELSE LET t == search(expression, Head(elems))
         IN  IF IsRaise(t) THEN t
             ELSE LET rest == filter_loop(Tail(elems), expression)
                  IN  IF IsRaise(rest) THEN rest
                      ELSE IF PyTruth(t) THEN Projection(<<Head(elems)>> \o rest[2])
                      ELSE rest

\* FilterExpression.search
FilterExpression_search(expression, v) ==
    IF ~IsList(v) THEN None
    ELSE IF IsProjection(v) THEN Projection_multi_filter(v[2], expression)
    ELSE filter_loop(v[2], expression)

\* Literal.search
Literal_search(literal_value, v) ==
    IF IsProjection(v) THEN Projection_get_literal(v[2], literal_value)
    ELSE literal_value

\* OPEquals._is_special_integer_case: `x is 0 or x is 1` holds of the int
\* objects 0 and 1 only (not of 0.0, 1.0, False or True); the function falls
\* off its end, returning None, when neither operand is one of them
is_special_integer_case(first_, second) ==
    IF first_[1] = "int" /\ first_[2] \in {0, 1} THEN IsBool(second)
    ELSE IF second[1] = "int" /\ second[2] \in {0, 1} THEN IsBool(first_)
    ELSE FALSE

\* OPEquals._equals
OPEquals_equals(first_, second) ==
    IF is_special_integer_case(first_, second) THEN PyBool(FALSE)
    ELSE PyBool(PyEq(first_, second))

\* OPNotEquals._not_equals
OPNotEquals_not_equals(first_, second) ==
    PyBool(~OPEquals_equals(first_, second)[2])

\* operator.lt, le, gt, ge of Python 2, which order any two objects
operator_lt(a, b) == PyBool(PyCmp(a, b) < 0)
operator_le(a, b) == PyBool(PyCmp(a, b) <= 0)
operator_gt(a, b) == PyBool(PyCmp(a, b) > 0)
operator_ge(a, b) == PyBool(PyCmp(a, b) >= 0)

\* Comparator.search: both operands are searched, then the operation applied
Comparator_search(n, v) ==
    LET a == search(n[2], v)
    IN  IF IsRaise(a) THEN a
        ELSE LET b == search(n[3], v)
             IN  IF IsRaise(b) THEN b
                 ELSE CASE n[1] = "OPEquals" -> OPEquals_equals(a, b)
                        [] n[1] = "OPNotEquals" -> OPNotEquals_not_equals(a, b)
                        [] n[1] = "OPLessThan" -> operator_lt(a, b)
                        [] n[1] = "OPLessThanEquals" -> operator_le(a, b)
                        [] n[1] = "OPGreaterThan" -> operator_gt(a, b)
                        [] n[1] = "OPGreaterThanEquals" -> operator_ge(a, b)

\* CurrentNode.search
CurrentNode_search(v) == v

\* -------------------------------------------------------- the type tables
\* A JMESPath type is <<kind>>, or <<"array", kind>> for the 'array-kind' of
\* the source.
REVERSE_TYPES_MAP(t) ==
    CASE t = "boolean" -> {"bool"}
      [] t = "array" -> {"list", "_Projection"}
      [] t = "object" -> {"dict", "OrderedDict"}
      [] t = "null" -> {"None"}
      [] t = "string" -> {"unicode", "str"}
      [] t = "number" -> {"float", "int"}

TYPES_MAP(python_type) ==
    CASE python_type = "bool" -> "boolean"
      [] python_type \in {"list", "_Projection"} -> "array"
      [] python_type \in {"dict", "OrderedDict"} -> "object"
      [] python_type = "NoneType" -> "null"
      [] python_type \in {"unicode", "str"} -> "string"
      [] python_type \in {"float", "int"} -> "number"
      [] OTHER -> "unknown"

Untyped == Arg(TRUE, FALSE, <<>>)
Typed(types) == Arg(TRUE, TRUE, types)

FunctionNames ==
    {"not_null", "abs", "avg", "to_number", "contains", "length", "ceil",
     "floor", "join", "max", "min", "sort", "sort_by", "keys", "values", "type"}

\* the argspec the @signature decorator records for each _func_<name>
argspec(name) ==
    CASE name = "not_null" -> <<Untyped>>
      [] name = "abs" -> <<Typed(<< <<"number">> >>)>>
      [] name = "avg" -> <<Typed(<< <<"array", "number">> >>)>>
      [] name = "to_number" -> <<Untyped>>
      [] name = "contains" -> <<Typed(<< <<"array">>, <<"string">> >>), Untyped>>
      [] name = "length" -> <<Typed(<< <<"string">>, <<"array">>, <<"object">> >>)>>
      [] name = "ceil" -> <<Typed(<< <<"number">> >>)>>
      [] name = "floor" -> <<Typed(<< <<"number">> >>)>>
      [] name = "join" -> <<Typed(<< <<"string">> >>), Typed(<< <<"array", "string">> >>)>>
      [] name = "max" -> <<Typed(<< <<"array", "number">> >>)>>
      [] name = "min" -> <<Typed(<< <<"array", "number">> >>)>>
      [] name = "sort" -> <<Typed(<< <<"array", "string">>, <<"array", "number">> >>)>>
      [] name = "sort_by" -> <<Untyped, Arg(FALSE, FALSE, <<>>)>>
      [] name = "keys" -> <<Typed(<< <<"object">> >>)>>
      [] name = "values" -> <<Typed(<< <<"object">> >>)>>
      [] name = "type" -> <<Untyped>>

arity(name) == Len(argspec(name))
variadic(name) == name = "not_null"

\* FunctionExpression.__init__: the node, or ValueError for an unknown name
FunctionExpression_init(name, args) ==
    IF name \in FunctionNames THEN FunctionExpression(name, args)
    ELSE Raise("ValueError")

\* ------------------------------------------------------ argument checking
RECURSIVE allowed_types(_)
allowed_types(types) ==
    IF types = <<>> THEN {}
    ELSE REVERSE_TYPES_MAP(Head(types)[1]) \cup allowed_types(Tail(types))

RECURSIVE allowed_subtypes(_)
\* one entry per 'array-T' among the declared types, in their order
allowed_subtypes(types) ==
    IF types = <<>> THEN <<>>
    ELSE IF Len(Head(types)) = 2
    THEN <<REVERSE_TYPES_MAP(Head(types)[2])>> \o allowed_subtypes(Tail(types))
    ELSE allowed_subtypes(Tail(types))

\* the element loop testing no more than the first element
check_elements_first_only(name, elems, allowed, types) ==
    IF elems = <<>> THEN <<"ok">>
    ELSE IF TypeName(Head(elems)) \notin allowed
    THEN JMESPathTypeError(name, Head(elems), TypeName(Head(elems)), types)
    ELSE <<"ok">>

RECURSIVE check_elements(_, _, _, _)
\* for element in current: raise for the first whose type is not allowed
check_elements(name, elems, allowed, types) ==
    IF elems = <<>> THEN <<"ok">>
    ELSE IF TypeName(Head(elems)) \notin allowed
    THEN JMESPathTypeError(name, Head(elems), TypeName(Head(elems)), types)
    ELSE check_elements(name, Tail(elems), allowed, types)

RECURSIVE first_subtypes(_, _)
\* the first entry of the subtypes that holds the type name; <<>> when none
first_subtypes(subtypes, typename) ==
    IF subtypes = <<>> THEN <<>>
    ELSE IF typename \in Head(subtypes) THEN <<Head(subtypes)>>
    ELSE first_subtypes(Tail(subtypes), typename)

\* the type validation of one resolved argument (the body of
\* `if arg_spec.types is not None`): <<"ok">> or the JMESPathTypeError raised
validate_argument(name, current, types) ==
    IF TypeName(current) \notin allowed_types(types)
    THEN JMESPathTypeError(name, current, TypeName(current), types)
    ELSE LET subs == allowed_subtypes(types)
         IN  IF Len(subs) = 1
             THEN check_elements(name, current[2], subs[1], types)
             ELSE IF Len(subs) > 1 /\ PyTruth(current)
             THEN LET first_name == TypeName(current[2][1])
                      allowed == first_subtypes(subs, first_name)
                  IN  IF allowed = <<>>
                      THEN JMESPathTypeError(name, current[2][1], first_name, types)
                      ELSE check_elements(name, current[2], allowed[1], types)
             ELSE <<"ok">>

\* ------------------------------------------------------------ numbers
RECURSIVE GCD(_, _)
GCD(a, b) == IF b = 0 THEN a ELSE GCD(b, a % b)

\* the float n/d, in lowest terms
MkFloat(n, d) ==
    LET g == GCD(Abs(n), d) IN PyFloat(n \div g, d \div g)

RECURSIVE Pow10(_)
Pow10(k) == IF k = 0 THEN 1 ELSE 10 * Pow10(k - 1)

RECURSIVE DigitsValue(_)
\* the number a string of digits writes
DigitsValue(s) ==
    IF s = <<>> THEN 0
    ELSE DigitsValue(SubSeq(s, 1, Len(s) - 1)) * 10 + DigitVal(s[Len(s)])

AllDigits(s) == \A i \in 1..Len(s) : IsDigit(s[i])

RECURSIVE Strip(_)
\* str.strip() of blanks
Strip(s) ==
    IF s = <<>> THEN s
    ELSE IF Head(s) = " " THEN Strip(Tail(s))
    ELSE IF s[Len(s)] = " " THEN Strip(SubSeq(s, 1, Len(s) - 1))
    ELSE s

\* int(s) of a string: blanks stripped, an optional minus sign, then digits;
\* ValueError otherwise
ParseInt(s) ==
    LET t == Strip(s)
        neg == t # <<>> /\ Head(t) = "-"
        body == IF neg THEN Tail(t) ELSE t
    IN  IF body # <<>> /\ AllDigits(body)
        THEN PyInt(IF neg THEN -DigitsValue(body) ELSE DigitsValue(body))
        ELSE Raise("ValueError")

\* float(s) of a string written without an exponent: blanks stripped, an
\* optional minus sign, digits with at most one point and at least one
\* digit; ValueError otherwise
ParseFloat(s) ==
    LET t == Strip(s)
        neg == t # <<>> /\ Head(t) = "-"
        body == IF neg THEN Tail(t) ELSE t
        points == {i \in 1..Len(body) : body[i] = "."}
    IN  IF Cardinality(points) > 1 THEN Raise("ValueError")
        ELSE LET dot == IF points = {} THEN Len(body) + 1 ELSE CHOOSE i \in points : TRUE
                 whole == SubSeq(body, 1, dot - 1)
                 frac == SubSeq(body, dot + 1, Len(body))
                 n == DigitsValue(whole \o frac)
             IN  IF AllDigits(whole) /\ AllDigits(frac) /\ Len(whole) + Len(frac) > 0
                 THEN MkFloat(IF neg THEN -n ELSE n, Pow10(Len(frac)))
                 ELSE Raise("ValueError")

\* -------------------------------------------------------------- functions
RECURSIVE func_not_null(_)
\* _func_not_null: the first argument that is not None
func_not_null(arguments) ==
    IF arguments = <<>> THEN None
    ELSE IF ~IsNone(Head(arguments)) THEN Head(arguments)
    ELSE func_not_null(Tail(arguments))

\* _func_abs
func_abs(arg) ==
    IF IsBool(arg) THEN None
    ELSE IF arg[1] = "int" THEN PyInt(Abs(arg[2]))
    ELSE IF arg[1] = "float" THEN PyFloat(Abs(arg[2][1]), arg[2][2])
    ELSE None

RECURSIVE SumFrac(_)
\* the sum of numbers, as a fraction
SumFrac(elems) ==
    IF elems = <<>> THEN <<0, 1>>
    ELSE LET h == Frac(Head(elems))
             t == SumFrac(Tail(elems))
         IN  <<h[1] * t[2] + t[1] * h[2], h[2] * t[2]>>

\* _func_avg: total / float(len(arg))
func_avg(arg) ==
    IF ~IsList(arg) \/ arg[2] = <<>> THEN None
    ELSE IF \E i \in 1..Len(arg[2]) : ~IsPyNumber(arg[2][i]) THEN None
    ELSE MkFloat(SumFrac(arg[2])[1], SumFrac(arg[2])[2] * Len(arg[2]))

\* `'.' in arg` of _func_to_number: a substring test on a string, a
\* membership test on a list, a key test on a dict, TypeError on None
has_point(arg) ==
    CASE IsString(arg) -> IsSubstring(<<".">>, arg[2])
      [] IsList(arg) -> \E i \in 1..Len(arg[2]) : PyEq(arg[2][i], PyStr(<<".">>))
      [] IsDict(arg) -> DictHas(arg[2], <<".">>)

\* _func_to_number: only ValueError is caught
func_to_number(arg) ==
    IF IsPyNumber(arg) THEN arg
    ELSE IF IsNone(arg) THEN Raise("TypeError")
    ELSE LET r == IF has_point(arg)
                  THEN (IF IsString(arg) THEN ParseFloat(arg[2]) ELSE Raise("TypeError"))
                  ELSE (IF IsString(arg) THEN ParseInt(arg[2]) ELSE Raise("TypeError"))
         IN  IF r = Raise("ValueError") THEN None ELSE r

\* _func_contains: `search in subject`; a string subject takes a string only
func_contains(subject, search_) ==
    IF ~(IsList(subject) \/ IsString(subject)) THEN None
    ELSE IF IsList(subject)
    THEN PyBool(\E i \in 1..Len(subject[2]) : PyEq(subject[2][i], search_))
    ELSE IF IsString(search_) THEN PyBool(IsSubstring(search_[2], subject[2]))
    ELSE Raise("TypeError")

\* _func_length
func_length(arg) ==
    IF IsBool(arg) THEN None
    ELSE IF IsString(arg) \/ IsList(arg) \/ IsDict(arg) THEN PyInt(Len(arg[2]))
    ELSE Raise("TypeError")

\* _func_ceil: math.ceil gives a float
func_ceil(arg) ==
    IF ~IsPyNumber(arg) THEN None
    ELSE PyFloat(-((-Frac(arg)[1]) \div Frac(arg)[2]), 1)

\* _func_floor: math.floor gives a float
func_floor(arg) ==
    IF ~IsPyNumber(arg) THEN None
    ELSE PyFloat(Frac(arg)[1] \div Frac(arg)[2], 1)

RECURSIVE JoinStr(_, _)
JoinStr(separator, elems) ==
    IF elems = <<>> THEN <<>>
    ELSE IF Len(elems) = 1 THEN elems[1][2]
    ELSE elems[1][2] \o separator \o JoinStr(separator, Tail(elems))

\* _func_join: separator.join(array), None when join raises TypeError
func_join(separator, array) ==
    IF ~IsList(array) \/ ~IsString(separator) THEN None
    ELSE IF \E i \in 1..Len(array[2]) : ~IsString(array[2][i]) THEN None
    ELSE PyStr(JoinStr(separator[2], array[2]))

RECURSIVE best_of(_, _, _)
\* the loops of _func_max (dir = 1) and _func_min (dir = -1): best is
\* replaced by each element beyond it
best_of(elems, best, dir) ==
    IF elems = <<>> THEN best
    ELSE IF PyCmp(Head(elems), best) = dir THEN best_of(Tail(elems), Head(elems), dir)
    ELSE best_of(Tail(elems), best, dir)

\* _func_max: every element is beyond float('-inf'), so the first one
\* replaces it
func_max(arg) ==
    IF ~IsList(arg) \/ arg[2] = <<>> THEN None
    ELSE best_of(Tail(arg[2]), Head(arg[2]), 1)

\* _func_min
func_min(arg) ==
    IF ~IsList(arg) \/ arg[2] = <<>> THEN None
    ELSE best_of(Tail(arg[2]), Head(arg[2]), -1)

RECURSIVE insert_sorted(_, _)
\* a pair <<key, element>> put behind every pair whose key is not greater
insert_sorted(pairs, p) ==
    IF pairs = <<>> THEN <<p>>
    ELSE IF PyCmp(p[1], Head(pairs)[1]) < 0 THEN <<p>> \o pairs
    ELSE <<Head(pairs)>> \o insert_sorted(Tail(pairs), p)

RECURSIVE sorted(_)
\* sorted(): stable, ascending by key; takes and gives <<key, element>> pairs
sorted(pairs) ==
    IF pairs = <<>> THEN <<>>
    ELSE insert_sorted(sorted(SubSeq(pairs, 1, Len(pairs) - 1)), pairs[Len(pairs)])

RECURSIVE Seconds(_)
Seconds(pairs) ==
    IF pairs = <<>> THEN <<>> ELSE <<Head(pairs)[2]>> \o Seconds(Tail(pairs))

RECURSIVE SelfKeyed(_)
SelfKeyed(elems) ==
    IF elems = <<>> THEN <<>> ELSE << <<Head(elems), Head(elems)>> >> \o SelfKeyed(Tail(elems))

\* _func_sort: list(sorted(arg))
func_sort(arg) ==
    IF ~IsList(arg) THEN None
    ELSE PyList(Seconds(sorted(SelfKeyed(arg[2]))))

RECURSIVE keyed(_, _)
\* the keys sorted() computes, key.search(x) for each x in turn: the
\* <<key, element>> pairs as a list, or the exception a key raised
keyed(elems, key) ==
    IF elems = <<>> THEN PyList(<<>>)
    ELSE LET k == search(key, Head(elems))
         IN  IF IsRaise(k) THEN k
             ELSE LET rest == keyed(Tail(elems), key)
                  IN  IF IsRaise(rest) THEN rest
                      ELSE PyList(<< <<k, Head(elems)>> >> \o rest[2])

\* _func_sort_by: list(sorted(arg, key=lambda x: key.search(x)))
func_sort_by(arg, key) ==
    IF ~IsList(arg) THEN None
    ELSE LET ks == keyed(arg[2], key)
         IN  IF IsRaise(ks) THEN ks ELSE PyList(Seconds(sorted(ks[2])))

\* _func_keys
func_keys(arg) ==
    IF ~IsDict(arg) THEN None ELSE PyList(DictKeys(arg[2]))

\* _func_values
func_values(arg) ==
    IF ~IsDict(arg) THEN None ELSE PyList(DictValues(arg[2]))

\* _func_type
func_type(arg) ==
    CASE IsString(arg) -> PyStr(<<"s", "t", "r", "i", "n", "g">>)
      [] IsBool(arg) -> PyStr(<<"b", "o", "o", "l", "e", "a", "n">>)
      [] IsList(arg) -> PyStr(<<"a", "r", "r", "a", "y">>)
      [] IsDict(arg) -> PyStr(<<"o", "b", "j", "e", "c", "t">>)
      [] IsPyNumber(arg) -> PyStr(<<"n", "u", "m", "b", "e", "r">>)
      [] IsNone(arg) -> PyStr(<<"n", "u", "l", "l">>)

\* function(*resolved_args): Python's own TypeError when the number of
\* arguments is not the number of parameters of _func_<name>
apply_function(name, a) ==
    IF ~variadic(name) /\ Len(a) # arity(name) THEN Raise("TypeError")
    ELSE CASE name = "not_null" -> func_not_null(a)
           [] name = "abs" -> func_abs(a[1])
           [] name = "avg" -> func_avg(a[1])
           [] name = "to_number" -> func_to_number(a[1])
           [] name = "contains" -> func_contains(a[1], a[2])
           [] name = "length" -> func_length(a[1])
           [] name = "ceil" -> func_ceil(a[1])
           [] name = "floor" -> func_floor(a[1])
           [] name = "join" -> func_join(a[1], a[2])
           [] name = "max" -> func_max(a[1])
           [] name = "min" -> func_min(a[1])
           [] name = "sort" -> func_sort(a[1])
           [] name = "sort_by" -> func_sort_by(a[1], a[2])
           [] name = "keys" -> func_keys(a[1])
           [] name = "values" -> func_values(a[1])
           [] name = "type" -> func_type(a[1])

RECURSIVE resolve_arguments(_, _, _)
\* the loop of _call_with_resolved_args over izip_longest(self.args,
\* function.argspec, fillvalue=function.argspec[-1]), up to pair i: the
\* resolved arguments as a list, or the exception raised
resolve_arguments(fn, v, i) ==
    IF i = 0 THEN PyList(<<>>)
    ELSE LET before == resolve_arguments(fn, v, i - 1)
             spec == argspec(fn[2])
             fillvalue == spec[Len(spec)]
             arg_expression == IF i <= Len(fn[3]) THEN fn[3][i] ELSE fillvalue
             arg_spec == IF i <= Len(spec) THEN spec[i] ELSE fillvalue
         IN  IF IsRaise(before) THEN before
             ELSE LET current == IF arg_spec[2] THEN search(arg_expression, v)
                                 ELSE arg_expression
                  IN  IF IsRaise(current) THEN current
                      ELSE LET checked == IF arg_spec[3]
                                          THEN validate_argument(fn[2], current, arg_spec[4])
                                          ELSE <<"ok">>
                           IN  IF IsRaise(checked) THEN checked
                               ELSE PyList(Append(before[2], current))

Max(a, b) == IF a > b THEN a ELSE b

\* FunctionExpression._resolve_arguments_wrapper._call_with_resolved_args
call_with_resolved_args(fn, v) ==
    IF IsProjection(v) THEN Projection_function_call(v[2], fn)
    ELSE LET resolved_args == resolve_arguments(fn, v, Max(Len(fn[3]), arity(fn[2])))
         IN  IF IsRaise(resolved_args) THEN resolved_args
             ELSE apply_function(fn[2], resolved_args[2])

\* FunctionExpression.search
FunctionExpression_search(n, v) == call_with_resolved_args(n, v)

\* AST.search, by the class of the node; an _Arg (what izip_longest fills a
\* missing argument with) has no search
search(n, v) ==
    CASE n[1] = "SubExpression" -> SubExpression_search(n, v)
      [] n[1] = "Field" -> Field_search(n[2], v)
      [] n[1] \in {"MultiFieldDict", "MultiFieldList"} -> BaseMultiField_search(n, v)
      [] n[1] = "KeyValPair" -> KeyValPair_search(n, v)
      [] n[1] = "Index" -> Index_search(n[2], v)
      [] n[1] = "WildcardIndex" -> WildcardIndex_search(v)
      [] n[1] = "WildcardValues" -> WildcardValues_search(v)
      [] n[1] = "ListElements" -> ListElements_search(v)
      [] n[1] = "ORExpression" -> ORExpression_search(n, v)
      [] n[1] = "FilterExpression" -> FilterExpression_search(n[2], v)
      [] n[1] = "Literal" -> Literal_search(n[2], v)
      [] n[1] \in ComparatorClasses -> Comparator_search(n, v)
      [] n[1] = "CurrentNode" -> CurrentNode_search(v)
      [] n[1] = "FunctionExpression" -> FunctionExpression_search(n, v)
      [] n[1] = "_Arg" -> Raise("AttributeError")

\* ------------------------------------------------- lists by reference
\* An object of the heap is <<type name, items>>, a list or a _Projection;
\* an item is <<"ref", address>> for a list or _Projection, and the value
\* itself otherwise.  Every operation takes the heap h and gives <<the heap
\* after it, the item returned or the exception raised>>.
IsRef(c) == c[1] = "ref"
IsProjectionRef(h, c) == IsRef(c) /\ h[c[2]][1] = "_Projection"
Items(h, c) == h[c[2]][2]

\* [] or _Projection([]) created: the heap with the new object, whose
\* address is Len(h) + 1
New(h, typename) == Append(h, <<typename, <<>>>>)
\* list.append and list.extend on the object at address a
HAppend(h, a, c) == [h EXCEPT ![a] = <<@[1], Append(@[2], c)>>]
HExtend(h, a, cells) == [h EXCEPT ![a] = <<@[1], @[2] \o cells>>]

RECURSIVE Deep(_, _)
RECURSIVE DeepItems(_, _)
\* the value an item stands for, the lists it refers to written out
Deep(h, c) ==
    IF IsRef(c) THEN <<h[c[2]][1], DeepItems(h, h[c[2]][2])>> ELSE c

DeepItems(h, cells) ==
    IF cells = <<>> THEN <<>>
    ELSE <<Deep(h, Head(cells))>> \o DeepItems(h, Tail(cells))

RECURSIVE Load(_, _)
RECURSIVE LoadItems(_, _)
\* a document put on the heap: <<the heap, the item for the document>>
Load(h, v) ==
    IF IsList(v)
    THEN LET below == LoadItems(h, v[2])
         IN  <<Append(below[1], <<v[1], below[2]>>), <<"ref", Len(below[1]) + 1>>>>
    ELSE <<h, v>>

LoadItems(h, q) ==
    IF q = <<>> THEN <<h, <<>>>>
    ELSE LET one == Load(h, Head(q))
             rest == LoadItems(one[1], Tail(q))
         IN  <<rest[1], <<one[2]>> \o rest[2]>>

\* _Projection.__init__: a new _Projection, extended by the elements
H_Projection_init(h, elements) ==
    <<HExtend(New(h, "_Projection"), Len(h) + 1, elements), <<"ref", Len(h) + 1>>>>

\* WildcardIndex.search
H_WildcardIndex_search(h, c) ==
    IF ~IsRef(c) THEN <<h, None>> ELSE H_Projection_init(h, Items(h, c))

RECURSIVE H_merge(_, _, _)
\* the loop of ListElements.search on merged_list, the object at address m
H_merge(h, m, elems) ==
    IF elems = <<>> THEN h
    ELSE IF IsRef(Head(elems))
    THEN H_merge(HExtend(h, m, Items(h, Head(elems))), m, Tail(elems))
    ELSE H_merge(HAppend(h, m, Head(elems)), m, Tail(elems))

\* ListElements.search: merged_list = [], the loop, _Projection(merged_list)
H_ListElements_search(h, c) ==
    IF ~IsRef(c) THEN <<h, None>>
    ELSE LET m == Len(h) + 1
             h1 == H_merge(New(h, "list"), m, Items(h, c))
         IN  H_Projection_init(h1, h1[m][2])

RECURSIVE H_get_index_loop(_, _, _, _)
\* the loop of _Projection.get_index on matches, the object at address m
H_get_index_loop(h, m, elems, index) ==
    IF elems = <<>> THEN h
    ELSE IF ~IsRef(Head(elems)) THEN H_get_index_loop(h, m, Tail(elems), index)
    ELSE IF IsRaise(ListItem(Items(h, Head(elems)), index))
    THEN H_get_index_loop(h, m, Tail(elems), index)
    ELSE H_get_index_loop(HAppend(h, m, ListItem(Items(h, Head(elems)), index)), m,
                          Tail(elems), index)

\* Index.search, and _Projection.get_index for a _Projection
H_Index_search(h, c, index) ==
    IF ~IsRef(c) THEN <<h, None>>
    ELSE IF IsProjectionRef(h, c)
    THEN LET m == Len(h) + 1
             h1 == H_get_index_loop(New(h, "list"), m, Items(h, c), index)
         IN  H_Projection_init(h1, h1[m][2])
    ELSE IF IsRaise(ListItem(Items(h, c), index)) THEN <<h, None>>
    ELSE <<h, ListItem(Items(h, c), index)>>

RECURSIVE H_multi_filter(_, _, _)
\* the loop of _Projection.multi_filter with the expression @, on results,
\* the object at address r
H_multi_filter(h, r, elems) ==
    IF elems = <<>> THEN h
    ELSE LET element == Head(elems)
         IN  IF IsProjectionRef(h, element)
             THEN LET sub == Len(h) + 1
                      h1 == H_multi_filter(New(h, "_Projection"), sub, Items(h, element))
                  IN  H_multi_filter(HAppend(h1, r, <<"ref", sub>>), r, Tail(elems))
             ELSE IF PyTruth(Deep(h, element))
             THEN H_multi_filter(HAppend(h, r, element), r, Tail(elems))
             ELSE H_multi_filter(h, r, Tail(elems))

RECURSIVE H_filter_loop(_, _, _)
\* the loop of FilterExpression.search with the expression @, on result,
\* the object at address r
H_filter_loop(h, r, elems) ==
    IF elems = <<>> THEN h
    ELSE IF PyTruth(Deep(h, Head(elems)))
    THEN H_filter_loop(HAppend(h, r, Head(elems)), r, Tail(elems))
    ELSE H_filter_loop(h, r, Tail(elems))

\* FilterExpression(CurrentNode).search
H_FilterExpression_search(h, c) ==
    IF ~IsRef(c) THEN <<h, None>>
    ELSE IF IsProjectionRef(h, c)
    THEN <<H_multi_filter(New(h, "_Projection"), Len(h) + 1, Items(h, c)),
           <<"ref", Len(h) + 1>>>>
    ELSE LET r == Len(h) + 1
             h1 == H_filter_loop(New(h, "list"), r, Items(h, c))
         IN  H_Projection_init(h1, h1[r][2])

RECURSIVE H_sorted(_, _)
\* sorted() of items: stable, ascending by the value the item stands for
H_sorted(h, cells) ==
    IF cells = <<>> THEN <<>>
    ELSE LET before == H_sorted(h, SubSeq(cells, 1, Len(cells) - 1))
             c == cells[Len(cells)]
             k == Cardinality({i \in 1..Len(before) :
                                  PyCmp(Deep(h, before[i]), Deep(h, c)) <= 0})
         IN  SubSeq(before, 1, k) \o <<c>> \o SubSeq(before, k + 1, Len(before))

\* arg.sort(), return arg: the list itself, sorted in place
H_sort_in_place(h, c) ==
    <<[h EXCEPT ![c[2]] = <<@[1], H_sorted(h, @[2])>>], c>>

\* list(sorted(arg)): a new list
H_list_sorted(h, c) ==
    <<HExtend(New(h, "list"), Len(h) + 1, H_sorted(h, Items(h, c))), <<"ref", Len(h) + 1>>>>

\* _func_sort behind its argument check: sort(@)
H_func_sort(h, c) ==
    LET checked == validate_argument("sort", Deep(h, c), argspec("sort")[1][4])
    IN  IF IsRaise(checked) THEN <<h, checked>>
        ELSE H_list_sorted(h, c)

\* _func_sort_by with the key expression @: sort_by(@, &@)
H_func_sort_by(h, c) ==
    IF ~IsRef(c) THEN <<h, None>> ELSE H_list_sorted(h, c)

RECURSIVE H_call(_, _, _)
RECURSIVE H_function_call(_, _, _, _)
\* _call_with_resolved_args of name(@): a _Projection has the call made on
\* each of its elements (function_call), result = _Projection([]) being the
\* object at Len(h) + 1 and _Projection(result) the one returned
H_call(h, c, name) ==
    IF IsProjectionRef(h, c)
    THEN LET r == Len(h) + 1
             done == H_function_call(New(h, "_Projection"), r, Items(h, c), name)
         IN  IF IsRaise(done[2]) THEN done
             ELSE H_Projection_init(done[1], done[1][r][2])
    ELSE IF name = "sort" THEN H_func_sort(h, c)
    ELSE H_func_sort_by(h, c)

\* the loop of _Projection.function_call on result, the object at address r
H_function_call(h, r, elems, name) ==
    IF elems = <<>> THEN <<h, <<"ok">>>>
    ELSE LET one == H_call(h, Head(elems), name)
         IN  IF IsRaise(one[2]) THEN one
             ELSE IF IsNone(one[2]) THEN H_function_call(one[1], r, Tail(elems), name)
             ELSE H_function_call(HAppend(one[1], r, one[2]), r, Tail(elems), name)

\* ------------------------------------------------------- the documents
KeyA == <<"a">>
KeyB == <<"b">>

RECURSIVE SeqsOfLen(_, _)
SeqsOfLen(S, k) ==
    IF k = 0 THEN {<<>>}
    ELSE {Append(q, x) : q \in SeqsOfLen(S, k - 1), x \in S}

SeqsUpTo(S, k) == UNION {SeqsOfLen(S, j) : j \in 0..k}

ObjB1 == PyDict(<< <<KeyB, PyInt(1)>> >>)

\* the elements of the arrays projected over
ProjectionElems ==
    {None, PyInt(1), PyStr(<<"a">>), PyList(<<None>>), PyList(<<PyInt(2)>>),
     PyDict(<< <<KeyA, PyInt(1)>> >>), PyDict(<< <<KeyA, None>> >>),
     PyDict(<< <<KeyB, PyInt(0)>> >>)}

\* the elements of the arrays a field chain is searched on
ChainElems ==
    {None, PyDict(<< <<KeyA, ObjB1>> >>), PyDict(<< <<KeyA, PyList(<<ObjB1>>)>> >>),
     PyDict(<< <<KeyA, PyDict(<< <<KeyB, None>> >>)>> >>),
     PyDict(<< <<KeyA, PyInt(1)>>, <<KeyB, PyInt(2)>> >>), PyList(<<ObjB1>>)}

\* the elements of the arrays filtered
FilterElems ==
    {None, PyBool(FALSE), PyBool(TRUE), PyInt(0), PyInt(1), PyFloat(0, 1),
     PyStr(<<>>), PyStr(<<"a">>), PyList(<<>>), PyDict(<<>>),
     PyDict(<< <<KeyA, PyInt(0)>> >>), PyDict(<< <<KeyA, PyInt(1)>> >>)}

\* the operands compared
Operands ==
    {None, PyBool(FALSE), PyBool(TRUE), PyInt(0), PyInt(1), PyInt(2),
     PyFloat(0, 1), PyFloat(1, 1), PyFloat(1, 2), PyStr(<<>>), PyStr(<<"a">>),
     PyStr(<<"b">>), PyList(<<>>), PyList(<<PyInt(1)>>), PyList(<<PyBool(TRUE)>>),
     PyDict(<<>>), PyDict(<< <<KeyA, PyInt(1)>> >>), PyDict(<< <<KeyA, PyBool(TRUE)>> >>)}

\* the documents functions are called on
FunctionInputs ==
    {None, PyBool(TRUE), PyInt(-1), PyStr(<<"a">>), PyStr(<<"1", ".", "5">>),
     PyList(<<>>), PyList(<<PyInt(2), PyInt(1)>>), PyDict(<< <<KeyA, PyInt(1)>> >>)}

\* the documents the accessors are searched on
AccessorInputs ==
    {None, PyBool(TRUE), PyInt(0), PyFloat(1, 2), PyStr(<<>>), PyStr(<<"a", "b">>),
     PyDict(<<>>), PyDict(<< <<KeyA, PyInt(1)>> >>), PyDict(<< <<KeyB, None>> >>)}
    \cup {PyList(q) : q \in SeqsUpTo({None, PyInt(1), PyStr(<<"a">>)}, MaxLen)}

\* ------------------------------------------------ the expressions searched
ProjectionSteps ==
    {Field(KeyA), Index(0), Index(-1), Literal(None), Literal(PyInt(1)),
     MultiFieldDict(<<KeyValPair(KeyA, Field(KeyA))>>),
     MultiFieldList(<<Field(KeyA)>>)}

Predicates ==
    {CurrentNode, Field(KeyA),
     Comparator("OPEquals", Field(KeyA), Literal(PyInt(1))),
     Comparator("OPGreaterThan", CurrentNode, Literal(PyInt(0)))}

ArgExpressions == {CurrentNode, Literal(PyStr(<<"a">>))}

\* ------------------------------------------------------- the driver
DriverIdle ==
    /\ phase = "idle"
    /\ ast = CurrentNode
    /\ input = None
    /\ output = None
    /\ probe = <<>>

HeapIdle ==
    /\ heap = <<>>
    /\ document = None
    /\ plan = <<>>
    /\ todo = <<>>
    /\ cur = None
    /\ round = 0
    /\ first_output = None

Init == DriverIdle /\ HeapIdle

\* search of arr[*] followed by one node
SearchProjection ==
    /\ phase = "idle"
    /\ \E arr \in SeqsUpTo(ProjectionElems, MaxLen), F \in ProjectionSteps :
          /\ ast' = SubExpression(WildcardIndex, F)
          /\ input' = PyList(arr)
          /\ output' = search(SubExpression(WildcardIndex, F), PyList(arr))
    /\ phase' = "projection"
    /\ UNCHANGED <<probe, hvars>>

\* search of arr[*].a.b
SearchFieldChain ==
    /\ phase = "idle"
    /\ \E arr \in SeqsUpTo(ChainElems, MaxLen), a \in {KeyA, KeyB}, b \in {KeyA, KeyB} :
          LET e == SubExpression(SubExpression(WildcardIndex, Field(a)), Field(b))
          IN  /\ ast' = e
              /\ input' = PyList(arr)
              /\ output' = search(e, PyList(arr))
    /\ phase' = "chain"
    /\ UNCHANGED <<probe, hvars>>

\* search of [?pred] on an array
SearchFilter ==
    /\ phase = "idle"
    /\ \E arr \in SeqsUpTo(FilterElems, MaxLen), pred \in Predicates :
          /\ ast' = FilterExpression(pred)
          /\ input' = PyList(arr)
          /\ output' = search(FilterExpression(pred), PyList(arr))
    /\ phase' = "filter"
    /\ UNCHANGED <<probe, hvars>>

\* search of a comparison of the current node with a literal, either way round
SearchComparator ==
    /\ phase = "idle"
    /\ \E cls \in ComparatorClasses, x \in Operands, y \in Operands, swap \in BOOLEAN :
          LET e == IF swap THEN Comparator(cls, Literal(y), CurrentNode)
                   ELSE Comparator(cls, CurrentNode, Literal(y))
          IN  /\ ast' = e
              /\ input' = x
              /\ output' = search(e, x)
    /\ phase' = "compare"
    /\ UNCHANGED <<probe, hvars>>

\* a function expression built and searched
SearchFunction ==
    /\ phase = "idle"
    /\ \E name \in FunctionNames \cup {"nope"}, args \in SeqsUpTo(ArgExpressions, MaxArgs),
          x \in FunctionInputs :
          LET e == FunctionExpression_init(name, args)
          IN  /\ ast' = e
              /\ input' = x
              /\ output' = IF IsRaise(e) THEN e ELSE search(e, x)
              /\ probe' = <<name, args>>
    /\ phase' = "function"
    /\ UNCHANGED hvars

\* search of one accessor
SearchAccessor ==
    /\ phase = "idle"
    /\ \E x \in AccessorInputs,
          e \in {Field(KeyA), Field(KeyB)} \cup {Index(i) : i \in (-(MaxLen + 1))..(MaxLen + 1)} :
          /\ ast' = e
          /\ input' = x
          /\ output' = search(e, x)
    /\ phase' = "accessor"
    /\ UNCHANGED <<probe, hvars>>

\* ---- a function call nested in other nodes
Wrappers ==
    {"sub", "or_first", "or_remaining", "multi_list", "multi_dict", "filter",
     "argument", "sort_key"}

\* the node of one wrapper kind around an inner node
Wrap(w, inner) ==
    CASE w = "sub" -> SubExpression(Field(KeyA), inner)
      [] w = "or_first" -> ORExpression(inner, Literal(PyInt(1)))
      [] w = "or_remaining" -> ORExpression(Literal(None), inner)
      [] w = "multi_list" -> MultiFieldList(<<Literal(PyInt(1)), inner>>)
      [] w = "multi_dict" -> MultiFieldDict(<<KeyValPair(KeyA, inner)>>)
      [] w = "filter" -> FilterExpression(inner)
      [] w = "argument" -> FunctionExpression_init("to_number", <<inner>>)
      [] w = "sort_key" -> FunctionExpression_init("sort_by", <<CurrentNode, inner>>)

\* the document on which the wrapper hands y to its inner node
WrapInput(w, y) ==
    CASE w = "sub" -> PyDict(<< <<KeyA, y>> >>)
      [] w \in {"filter", "sort_key"} -> PyList(<<y>>)
      [] OTHER -> y

RECURSIVE BuildAst(_, _)
\* the wrappers of ctx, outermost first, around core
BuildAst(ctx, core) ==
    IF ctx = <<>> THEN core ELSE Wrap(Head(ctx), BuildAst(Tail(ctx), core))

RECURSIVE BuildInput(_, _)
BuildInput(ctx, y) ==
    IF ctx = <<>> THEN y ELSE WrapInput(Head(ctx), BuildInput(Tail(ctx), y))

\* function calls with one argument of declared types taking the current
\* node: <<name, argument expressions, position of that argument>>
NestedCalls ==
    {<<"length", <<CurrentNode>>, 1>>,
     <<"abs", <<CurrentNode>>, 1>>,
     <<"join", <<Literal(PyStr(<<"a">>)), CurrentNode>>, 2>>}

NestedInputs ==
    {None, PyBool(TRUE), PyInt(1), PyStr(<<"a">>), PyList(<<>>)}

\* search of a function call under up to MaxCtxDepth nodes, called on x
\* directly or broadcast over the projection of [x]
SearchNested ==
    /\ phase = "idle"
    /\ \E ctx \in SeqsUpTo(Wrappers, MaxCtxDepth), broadcast \in BOOLEAN,
          call \in NestedCalls, x \in NestedInputs :
          LET F == FunctionExpression_init(call[1], call[2])
              core == IF broadcast THEN SubExpression(WildcardIndex, F) ELSE F
              y == IF broadcast THEN PyList(<<x>>) ELSE x
          IN  /\ ast' = BuildAst(ctx, core)
              /\ input' = BuildInput(ctx, y)
              /\ output' = search(BuildAst(ctx, core), BuildInput(ctx, y))
              /\ probe' = <<ctx, broadcast, call, x>>
    /\ phase' = "nested"
    /\ UNCHANGED hvars

\* ---- a filter after a projection
\* the members of the arrays filtered under a projection
BroadcastMembers == {None, PyInt(1)}

BroadcastPredicates ==
    {CurrentNode,
     Comparator("OPEquals", CurrentNode, Literal(PyInt(1))),
     Comparator("OPEquals", CurrentNode, Literal(None))}

\* how the projection filtered comes about: arr[*] leaves the arrays in arr
\* as they are, arr[*].a and arr[*].a.a wrap the arrays found in _Projections
BroadcastShapes == {"plain", "nested", "deep"}

BroadcastStep(shape) ==
    CASE shape = "plain" -> WildcardIndex
      [] shape = "nested" -> SubExpression(WildcardIndex, Field(KeyA))
      [] shape = "deep" ->
           SubExpression(SubExpression(WildcardIndex, Field(KeyA)), Field(KeyA))

BroadcastElement(shape, q) ==
    CASE shape = "plain" -> PyList(q)
      [] shape = "nested" -> PyDict(<< <<KeyA, PyList(q)>> >>)
      [] shape = "deep" ->
           PyDict(<< <<KeyA, PyList(<<PyDict(<< <<KeyA, PyList(q)>> >>)>>)>> >>)

\* search of arr[*][?pred], arr[*].a[?pred] or arr[*].a.a[?pred]
SearchFilterBroadcast ==
    /\ phase = "idle"
    /\ \E shape \in BroadcastShapes, pred \in BroadcastPredicates,
          subs \in SeqsUpTo(SeqsUpTo(BroadcastMembers, MaxLen), MaxLen) :
          LET e == SubExpression(BroadcastStep(shape), FilterExpression(pred))
              arr == PyList([i \in 1..Len(subs) |-> BroadcastElement(shape, subs[i])])
          IN  /\ ast' = e
              /\ input' = arr
              /\ output' = search(e, arr)
              /\ probe' = <<shape, search(BroadcastStep(shape), arr), pred>>
    /\ phase' = "filter_broadcast"
    /\ UNCHANGED hvars

\* ---- a function call after a projection
\* calls of one argument, the current node
BroadcastCalls == {"not_null", "length", "to_number", "type", "abs"}

\* search of name(@) on arr, or of arr[*].name(@), arr[*].a.name(@) or
\* arr[*].a.a.name(@)
SearchFunctionBroadcast ==
    /\ phase = "idle"
    /\ \E shape \in BroadcastShapes \cup {"direct"}, name \in BroadcastCalls,
          subs \in SeqsUpTo(SeqsUpTo(BroadcastMembers, MaxLen), MaxLen) :
          LET F == FunctionExpression_init(name, <<CurrentNode>>)
              e == IF shape = "direct" THEN F ELSE SubExpression(BroadcastStep(shape), F)
              arr == PyList([i \in 1..Len(subs) |->
                               BroadcastElement(IF shape = "direct" THEN "plain" ELSE shape, subs[i])])
          IN  /\ ast' = e
              /\ input' = arr
              /\ output' = search(e, arr)
              /\ probe' = <<shape, IF shape = "direct" THEN arr ELSE search(BroadcastStep(shape), arr), F>>
    /\ phase' = "function_broadcast"
    /\ UNCHANGED hvars

\* ---- a function taking an array of declared element types
\* <<name, argument expressions, position of the array argument>>
ArrayCalls ==
    {<<"avg", <<CurrentNode>>, 1>>,
     <<"max", <<CurrentNode>>, 1>>,
     <<"min", <<CurrentNode>>, 1>>,
     <<"sort", <<CurrentNode>>, 1>>,
     <<"join", <<Literal(PyStr(<<"a">>)), CurrentNode>>, 2>>}

ArrayMembers ==
    {None, PyBool(TRUE), PyInt(1), PyFloat(1, 2), PyStr(<<"a">>), PyList(<<>>)}

\* search of avg(@), max(@), min(@), sort(@) or join('a', @) on an array
SearchArrayArgument ==
    /\ phase = "idle"
    /\ \E call \in ArrayCalls, arr \in SeqsUpTo(ArrayMembers, MaxLen) :
          LET e == FunctionExpression_init(call[1], call[2])
          IN  /\ ast' = e
              /\ input' = PyList(arr)
              /\ output' = search(e, PyList(arr))
              /\ probe' = call
    /\ phase' = "array_argument"
    /\ UNCHANGED hvars

Next ==
    \/ SearchProjection
    \/ SearchFieldChain
    \/ SearchFilter
    \/ SearchComparator
    \/ SearchFunction
    \/ SearchAccessor
    \/ SearchNested
    \/ SearchFilterBroadcast
    \/ SearchFunctionBroadcast
    \/ SearchArrayArgument

Spec == Init /\ [][Next]_vars

\* ------------------------------------------------- JSON, as the claims read it
\* the JSON kind of a value; a _Projection is written out as an array
JsonKind(v) ==
    CASE v[1] = "NoneType" -> "null"
      [] v[1] = "bool" -> "boolean"
      [] v[1] \in {"int", "float"} -> "number"
      [] v[1] = "unicode" -> "string"
      [] v[1] \in {"list", "_Projection"} -> "array"
      [] v[1] = "dict" -> "object"
      [] OTHER -> "none"

IsJsonNumber(v) == JsonKind(v) = "number"

RECURSIVE JsonEq(_, _)
\* structural equality of two JSON values: the same kind, and the same
\* number, text, items in order, or members
JsonEq(a, b) ==
    IF JsonKind(a) # JsonKind(b) \/ JsonKind(a) = "none" THEN FALSE
    ELSE CASE JsonKind(a) = "null" -> TRUE
           [] JsonKind(a) = "boolean" -> a[2] = b[2]
           [] JsonKind(a) = "number" -> NumEq(a, b)
           [] JsonKind(a) = "string" -> a[2] = b[2]
           [] JsonKind(a) = "array" ->
                /\ Len(a[2]) = Len(b[2])
                /\ \A i \in 1..Len(a[2]) : JsonEq(a[2][i], b[2][i])
           [] JsonKind(a) = "object" ->
                /\ Len(a[2]) = Len(b[2])
                /\ \A i \in 1..Len(a[2]) :
                      /\ a[2][i][1] = b[2][i][1]
                      /\ JsonEq(a[2][i][2], b[2][i][2])

\* falsy, as the filter's truthiness defines it: null, false, "", [] or {}
JsonFalsy(v) ==
    \/ JsonKind(v) = "null"
    \/ JsonKind(v) = "boolean" /\ ~v[2]
    \/ JsonKind(v) \in {"string", "array", "object"} /\ v[2] = <<>>

RECURSIVE SelectNotNull(_)
SelectNotNull(q) ==
    IF q = <<>> THEN <<>>
    ELSE IF IsNone(Head(q)) THEN SelectNotNull(Tail(q))
    ELSE <<Head(q)>> \o SelectNotNull(Tail(q))

\* ------------------------------------------------------------------ claims

\* C1: searching arr[*] followed by a Field, Index, Literal or multi-select
\* node F gives a sequence with as many items as arr has elements e with
\* F.search(e) not null.
C1_ProjectionDropRule ==
    phase = "projection" =>
        /\ IsList(output)
        /\ Len(output[2]) =
              Cardinality({i \in 1..Len(input[2]) : ~IsNone(search(ast[3], input[2][i]))})

RECURSIVE ChainValues(_, _, _)
\* Field(b).search(Field(a).search(e)) for each e in turn
ChainValues(q, a, b) ==
    IF q = <<>> THEN <<>>
    ELSE <<Field_search(b, Field_search(a, Head(q)))>> \o ChainValues(Tail(q), a, b)

\* C2: arr[*].a.b is, in arr order, Field(b).search(Field(a).search(e)) for
\* the elements e where that is not null.
C2_FieldChainBroadcast ==
    phase = "chain" =>
        JsonEq(output, PyList(SelectNotNull(ChainValues(input[2], ast[2][3][2], ast[3][2]))))

RECURSIVE TruthyOnes(_, _)
\* the elements whose predicate value is not falsy, in order
TruthyOnes(q, pred) ==
    IF q = <<>> THEN <<>>
    ELSE IF JsonFalsy(search(pred, Head(q))) THEN TruthyOnes(Tail(q), pred)
    ELSE <<Head(q)>> \o TruthyOnes(Tail(q), pred)

\* C3: a filter keeps, in order, exactly the elements whose predicate value
\* is not null, false, "", [] or {}; the number 0 keeps its element.
C3_FilterTruthiness ==
    phase = "filter" => JsonEq(output, PyList(TruthyOnes(input[2], ast[2])))

OrderingClasses ==
    {"OPLessThan", "OPLessThanEquals", "OPGreaterThan", "OPGreaterThanEquals"}

\* C4: <, <=, > and >= give null unless both operands are numbers, and a
\* boolean when both are.
C4_OrderingNullOnNonNumbers ==
    (phase = "compare" /\ ast[1] \in OrderingClasses) =>
        LET a == search(ast[2], input)
            b == search(ast[3], input)
        IN  IF IsJsonNumber(a) /\ IsJsonNumber(b) THEN IsBool(output)
            ELSE IsNone(output)

ZeroOrOne(v) == IsJsonNumber(v) /\ (NumEq(v, PyInt(0)) \/ NumEq(v, PyInt(1)))
BoolAgainstZeroOrOne(a, b) ==
    \/ IsBool(a) /\ ZeroOrOne(b)
    \/ IsBool(b) /\ ZeroOrOne(a)

\* C5: == of a boolean and a number equal to 0 or 1 (an integer or a double,
\* either way round) is false and != is true; every other pair compares by
\* structural equality.
C5_BooleanNumberEquality ==
    (phase = "compare" /\ ast[1] \in {"OPEquals", "OPNotEquals"}) =>
        LET a == search(ast[2], input)
            b == search(ast[3], input)
            equal == IF BoolAgainstZeroOrOne(a, b) THEN FALSE ELSE JsonEq(a, b)
        IN  output = PyBool(IF ast[1] = "OPEquals" THEN equal ELSE ~equal)

\* C7: a call of a function that is not variadic with fewer or more argument
\* expressions than its arity fails with the arity-mismatch error.
C7_ArityMismatch ==
    (/\ phase = "function"
     /\ probe[1] \in FunctionNames
     /\ ~variadic(probe[1])
     /\ Len(probe[2]) # arity(probe[1])) =>
        IsRaise(output) /\ output[2] = "ArityMismatch"

RightArgumentCount(name, args) ==
    IF variadic(name) THEN Len(args) >= arity(name) ELSE Len(args) = arity(name)

\* C10: with the right number of arguments a search returns a value or
\* raises the structured type error, and nothing else.
C10_NoOtherRuntimeErrors ==
    (/\ phase = "function"
     /\ probe[1] \in FunctionNames
     /\ RightArgumentCount(probe[1], probe[2])) =>
        (IsRaise(output) => output[2] = "JMESPathTypeError")

InRange(i, q) == -Len(q) <= i /\ i < Len(q)

\* C8: Field is null on what is not an object or lacks the key; Index is
\* null on what is not an array and out of range, and counts a negative
\* index from the end; neither raises.
C8_AccessorsNeverFail ==
    phase = "accessor" =>
        /\ ~IsRaise(output)
        /\ ast[1] = "Field" =>
              ((JsonKind(input) # "object" \/ ~DictHas(input[2], ast[2])) => IsNone(output))
        /\ ast[1] = "Index" =>
              IF JsonKind(input) # "array" \/ ~InRange(ast[2], input[2]) THEN IsNone(output)
              ELSE IF ast[2] < 0 THEN output = input[2][Len(input[2]) + ast[2] + 1]
              ELSE output = input[2][ast[2] + 1]

\* an index counted from the end found its element, an index out of range
\* and an index into a string found nothing
C8_Witness ==
    /\ phase = "accessor"
    /\ ast = Index(-1)
    /\ input = PyList(<<None, PyInt(1)>>)
    /\ output = PyInt(1)

RECURSIVE Reaches(_, _)
\* whether the search gets as far as the core under the wrappers of ctx: a
\* multi-select searches nothing on null
Reaches(ctx, y) ==
    IF ctx = <<>> THEN TRUE
    ELSE /\ Head(ctx) \in {"multi_list", "multi_dict"} => ~IsNone(BuildInput(Tail(ctx), y))
         /\ Reaches(Tail(ctx), y)

DeclaredKinds(types) == {types[i][1] : i \in 1..Len(types)}

\* C6: when an argument with declared types resolves to a value of another
\* kind, the search of the root ends with the type error naming the
\* function, the value, its type and the declared types, however the call is
\* nested.
C6_TypeErrorPropagates ==
    phase = "nested" =>
        LET ctx == probe[1]
            call == probe[3]
            x == probe[4]
            types == argspec(call[1])[call[3]][4]
        IN  (/\ Reaches(ctx, IF probe[2] THEN PyList(<<x>>) ELSE x)
             /\ JsonKind(x) \notin DeclaredKinds(types)) =>
                /\ output = JMESPathTypeError(call[1], x, TypeName(x), types)
                /\ TYPES_MAP(output[5]) = JsonKind(x)

\* length(@) broadcast over [true], inside a filter inside an OR branch,
\* ended with the type error for true
C6_Witness ==
    /\ phase = "nested"
    /\ probe[1] = <<"or_remaining", "filter">>
    /\ probe[2]
    /\ probe[3][1] = "length"
    /\ probe[4] = PyBool(TRUE)
    /\ IsRaise(output)
    /\ output[2] = "JMESPathTypeError"
    /\ TYPES_MAP(output[5]) = "boolean"

\* ------------------------------------------- the driver, lists by reference
HeapDocuments ==
    {PyList(<<>>),
     PyList(<<PyInt(2), PyInt(1)>>),
     PyList(<<PyList(<<PyInt(2), PyInt(1)>>), PyList(<<PyInt(0)>>)>>),
     PyList(<<PyList(<<PyStr(<<"b">>), PyStr(<<"a">>)>>), PyInt(0), None>>),
     PyList(<<PyList(<<PyList(<<PyInt(1), PyInt(0)>>)>>), PyList(<<>>)>>)}

HeapNodes ==
    {WildcardIndex, ListElements, FilterExpression(CurrentNode), Index(0),
     FunctionExpression("sort", <<CurrentNode>>),
     FunctionExpression("sort_by", <<CurrentNode, CurrentNode>>)}

\* the document loaded, and a chain of up to MaxPipeline nodes to search
HeapInit ==
    /\ DriverIdle
    /\ \E doc \in HeapDocuments, p \in SeqsUpTo(HeapNodes, MaxPipeline) :
          /\ p # <<>>
          /\ document = doc
          /\ heap = Load(<<>>, doc)[1]
          /\ cur = Load(<<>>, doc)[2]
          /\ plan = p
          /\ todo = p
    /\ round = 1
    /\ first_output = None

\* the child of a SubExpression is searched with what the parent gave; an
\* exception ends the search
Advance(r) ==
    /\ heap' = r[1]
    /\ cur' = r[2]
    /\ todo' = IF IsRaise(r[2]) THEN <<>> ELSE Tail(todo)
    /\ UNCHANGED <<dvars, document, plan, round, first_output>>

StepWildcardIndex ==
    /\ todo # <<>>
    /\ Head(todo) = WildcardIndex
    /\ Advance(H_WildcardIndex_search(heap, cur))

StepListElements ==
    /\ todo # <<>>
    /\ Head(todo) = ListElements
    /\ Advance(H_ListElements_search(heap, cur))

StepFilterExpression ==
    /\ todo # <<>>
    /\ Head(todo)[1] = "FilterExpression"
    /\ Advance(H_FilterExpression_search(heap, cur))

StepIndex ==
    /\ todo # <<>>
    /\ Head(todo)[1] = "Index"
    /\ Advance(H_Index_search(heap, cur, Head(todo)[2]))

StepFunctionExpression ==
    /\ todo # <<>>
    /\ Head(todo)[1] = "FunctionExpression"
    /\ Advance(H_call(heap, cur, Head(todo)[2]))

\* the first search has returned or raised: the same chain is searched on
\* the same document again
SearchAgain ==
    /\ round = 1
    /\ todo = <<>>
    /\ round' = 2
    /\ first_output' = Deep(heap, cur)
    /\ todo' = plan
    /\ cur' = <<"ref", Len(Load(<<>>, document)[1])>>
    /\ UNCHANGED <<dvars, heap, document, plan>>

HeapNext ==
    \/ StepWildcardIndex
    \/ StepListElements
    \/ StepFilterExpression
    \/ StepIndex
    \/ StepFunctionExpression
    \/ SearchAgain

SpecHeap == HeapInit /\ [][HeapNext]_vars

\* C9: the input document and every array in it are as they were, during
\* and after a search, and a second search of the same expression on the
\* same input gives an equal result.
C9_InputNeverWritten ==
    round \in {1, 2} =>
        /\ SubSeq(heap, 1, Len(Load(<<>>, document)[1])) = Load(<<>>, document)[1]
        /\ Deep(heap, <<"ref", Len(Load(<<>>, document)[1])>>) = document
        /\ (round = 2 /\ todo = <<>>) => Deep(heap, cur) = first_output

\* [[2, 1], [0]][0] sorted gave [1, 2] twice
C9_Witness ==
    /\ round = 2
    /\ todo = <<>>
    /\ document = PyList(<<PyList(<<PyInt(2), PyInt(1)>>), PyList(<<PyInt(0)>>)>>)
    /\ plan = <<Index(0), FunctionExpression("sort", <<CurrentNode>>)>>
    /\ Deep(heap, cur) = PyList(<<PyInt(1), PyInt(2)>>)
    /\ first_output = PyList(<<PyInt(1), PyInt(2)>>)

\* ---------------------------------------------------- filter broadcast
IsSequence(v) == JsonKind(v) = "array"

RECURSIVE FilteredSubSequences(_, _)
\* one entry per sub-sequence, in order: the members of an array of which
\* the predicate is truthy, and a nested _Projection filtered the same way
FilteredSubSequences(q, pred) ==
    IF q = <<>> THEN <<>>
    ELSE LET sub == Head(q)
             entry == IF IsProjection(sub) /\ sub[2] # <<>> /\ \A i \in 1..Len(sub[2]) : IsSequence(sub[2][i])
                      THEN PyList(FilteredSubSequences(sub[2], pred))
                      ELSE PyList(TruthyOnes(sub[2], pred))
         IN  <<entry>> \o FilteredSubSequences(Tail(q), pred)

\* C11: a filter applied to a _Projection whose elements are arrays or
\* nested _Projections gives one entry per sub-sequence, in order, each
\* holding exactly the members of that sub-sequence of which the predicate
\* is truthy; the predicate is never evaluated on a sub-sequence as a whole.
C11_FilterBroadcast ==
    (/\ phase = "filter_broadcast"
     /\ IsProjection(probe[2])
     /\ \A i \in 1..Len(probe[2][2]) : IsSequence(probe[2][2][i])) =>
        JsonEq(output, PyList(FilteredSubSequences(probe[2][2], probe[3])))

\* ------------------------------------------------ function-call broadcast
\* the function run once with v as the current value: the arguments
\* resolved and their types checked, then the call
RunOnce(fn, v) ==
    LET resolved_args == resolve_arguments(fn, v, Max(Len(fn[3]), arity(fn[2])))
    IN  IF IsRaise(resolved_args) THEN resolved_args
        ELSE apply_function(fn[2], resolved_args[2])

RECURSIVE RunPerElement(_, _)
\* the function run once per element, a nested _Projection element by
\* element: the sequence of the results, or the first error raised
RunPerElement(fn, q) ==
    IF q = <<>> THEN PyList(<<>>)
    ELSE LET r == IF IsProjection(Head(q))
                  THEN LET inner == RunPerElement(fn, Head(q)[2])
                       IN  IF IsRaise(inner) THEN inner
                           ELSE Projection(SelectNotNull(inner[2]))
                  ELSE RunOnce(fn, Head(q))
         IN  IF IsRaise(r) THEN r
             ELSE LET rest == RunPerElement(fn, Tail(q))
                  IN  IF IsRaise(rest) THEN rest ELSE PyList(<<r>> \o rest[2])

\* C12: a function searched with a _Projection as the current value runs
\* once per element, nested _Projections element by element, and gives the
\* _Projection of the results that are not null, in order; searched with a
\* plain array or any other value it runs exactly once on that value.
C12_FunctionCallBroadcast ==
    /\ phase = "function_broadcast" =>
          IF IsProjection(probe[2])
          THEN LET results == RunPerElement(probe[3], probe[2][2])
               IN  IF IsRaise(results) THEN output = results
                   ELSE output = Projection(SelectNotNull(results[2]))
          ELSE output = RunOnce(probe[3], probe[2])
    /\ (phase = "function" /\ ~IsRaise(ast)) => output = RunOnce(ast, input)

\* not_null(@) broadcast over the nested projection of [{"a": [null, 1]}]
\* ran on null and on 1 and kept the one result that is not null
C12_Witness ==
    /\ phase = "function_broadcast"
    /\ probe[1] = "nested"
    /\ probe[2] = Projection(<<Projection(<<None, PyInt(1)>>)>>)
    /\ probe[3][2] = "not_null"
    /\ output = Projection(<<Projection(<<PyInt(1)>>)>>)

\* -------------------------------------------- array element-type validation
\* the element kinds T of the declared array-T types
ElementKinds(types) ==
    LET at == {i \in 1..Len(types) : Len(types[i]) = 2}
    IN  {types[i][2] : i \in at}

\* the positions of the elements that are not of a kind in kinds
Offending(q, kinds) == {i \in 1..Len(q) : JsonKind(q[i]) \notin kinds}

Least(S) == CHOOSE i \in S : \A j \in S : i <= j

IsTypeErrorCiting(v, name, element, types) ==
    /\ IsRaise(v)
    /\ v = JMESPathTypeError(name, element, TypeName(element), types)

\* C13: every element of an argument declared array-T must be of kind T,
\* or the type error citing the first offending element is raised; with
\* several array-T alternatives the kind of the first element selects T, so
\* a first element of none of the kinds, or a later one of another kind,
\* raises; an empty array and an array all of one declared kind pass.
C13_ArrayElementTypes ==
    phase = "array_argument" =>
        LET name == probe[1]
            types == argspec(name)[probe[3]][4]
            q == input[2]
            declared == ElementKinds(types)
            selected == IF Cardinality(declared) = 1 \/ q = <<>> THEN declared
                        ELSE declared \cap {JsonKind(q[1])}
            bad == Offending(q, selected)
        IN  IF bad = {} THEN ~IsRaise(output)
            ELSE IsTypeErrorCiting(output, name, q[Least(bad)], types)

\* sort(@) on [1, "a"]: the first element selected number and the string
\* after it is the element the type error cites
C13_Witness ==
    /\ phase = "array_argument"
    /\ probe[1] = "sort"
    /\ input = PyList(<<PyInt(1), PyStr(<<"a">>)>>)
    /\ output = JMESPathTypeError("sort", PyStr(<<"a">>), "unicode",
                                  << <<"array", "string">>, <<"array", "number">> >>)

====
